---- MODULE Spec2Model ----
(***************************************************************************)
(* Model of the chat backend: the deterministic intent matcher             *)
(* (app/services/intent_mapping.py), the agent decision hierarchy          *)
(* (app/services/agent.py), the Task MCP server                            *)
(* (mcp_servers/task_mcp/main.py) and the chat endpoint with its           *)
(* conversation persistence (app/api/routes/chat.py,                       *)
(* app/services/conversation.py, app/core/database.py).                    *)
(*                                                                         *)
(* Text is modelled as TLA+ strings, handled character by character with   *)
(* Len, SubSeq and \o.  Confidence scores are modelled in tenths:          *)
(* 1.0 -> 10, 0.7 -> 7, 0.5 -> 5, 0.0 -> 0.                                *)
(***************************************************************************)
EXTENDS Integers, Sequences, FiniteSets, TLC

VARIABLES
    INTENT_PATTERNS,  \* IntentMapper.INTENT_PATTERNS, a class-level (mutable) dict
    in_msg,           \* input text of the next direct call of a pure function
    out,              \* record of the last direct call, or NoCall
    ncalls,           \* number of direct calls made so far
    conversations,    \* committed rows of the conversations table: id -> row
    messages,         \* committed rows of the messages table
    tasks,            \* committed rows of the tasks table: id -> row
    next_task_id,     \* the id the tasks table gives to its next row
    next_conv_id,     \* the next fresh conversation id (uuid4)
    clock,            \* datetime.utcnow(), in ticks
    req,              \* the chat requests: position in chat() and session state
    turns,            \* number of chat requests received so far
    persisted         \* per conversation, the messages of its committed turns in
                      \* the order in which chat() persisted them

pureVars == <<in_msg, out, ncalls>>
chatVars == <<conversations, messages, tasks, next_task_id, next_conv_id, clock,
              req, turns, persisted>>
vars == <<INTENT_PATTERNS, in_msg, out, ncalls, conversations, messages, tasks,
          next_task_id, next_conv_id, clock, req, turns, persisted>>

(***************************************************************************)
(* Bounds                                                                  *)
(***************************************************************************)
MaxWords == 2      \* words per generated message
MaxCalls == 3      \* direct calls of a pure function per behaviour
MaxTurns == 2      \* chat requests per behaviour
MaxConvs == 2      \* conversations created per behaviour
MaxTasks == 2      \* rows ever inserted into the tasks table
MaxConcTurns == 2  \* chat requests per behaviour of the concurrent specification

(***************************************************************************)
(* Characters and strings                                                  *)
(***************************************************************************)
Char(s, i) == SubSeq(s, i, i)

Uppers == "ABCDEFGHIJKLMNOPQRSTUVWXYZ"
Lowers == "abcdefghijklmnopqrstuvwxyz"
Digits == "0123456789"

\* str.isspace() / the regex class \s, over the modelled alphabet
IsSpace(c) == c \in {" ", "\t", "\n"}

DigitChars == {Char(Digits, i) : i \in 1..Len(Digits)}

IsDigit(c) == c \in DigitChars

UpperChars == {Char(Uppers, i) : i \in 1..Len(Uppers)}

LowerOf == [c \in UpperChars |->
               Char(Lowers, CHOOSE i \in 1..Len(Uppers) : Char(Uppers, i) = c)]

LowerChar(c) == IF c \in UpperChars THEN LowerOf[c] ELSE c

\* str.lower()
RECURSIVE Lower(_)
Lower(s) ==
    IF s = "" THEN ""
    ELSE LowerChar(Char(s, 1)) \o Lower(SubSeq(s, 2, Len(s)))

UpperOf == [c \in UpperChars |-> c] @@
           [c \in {Char(Lowers, i) : i \in 1..Len(Lowers)} |->
               Char(Uppers, CHOOSE i \in 1..Len(Lowers) : Char(Lowers, i) = c)]

\* str.upper()
RECURSIVE Upper(_)
Upper(s) ==
    IF s = "" THEN ""
    ELSE (IF Char(s, 1) \in DOMAIN UpperOf THEN UpperOf[Char(s, 1)] ELSE Char(s, 1))
         \o Upper(SubSeq(s, 2, Len(s)))

RECURSIVE LStrip(_)
LStrip(s) ==
    IF s # "" /\ IsSpace(Char(s, 1)) THEN LStrip(SubSeq(s, 2, Len(s))) ELSE s

RECURSIVE RStrip(_)
RStrip(s) ==
    IF s # "" /\ IsSpace(Char(s, Len(s))) THEN RStrip(SubSeq(s, 1, Len(s) - 1)) ELSE s

\* the message taken as it came, surrounding whitespace included
NoStrip(s) == s

\* str.strip()
Strip(s) == RStrip(LStrip(s))

\* the Python test `kw in s`
Contains(s, kw) ==
    \E i \in 1..(Len(s) - Len(kw) + 1) : SubSeq(s, i, i + Len(kw) - 1) = kw

\* str.find(kw), 1-based; 0 when kw does not occur (Python: -1)
Find(s, kw) ==
    IF Contains(s, kw)
    THEN CHOOSE i \in 1..(Len(s) - Len(kw) + 1) :
            /\ SubSeq(s, i, i + Len(kw) - 1) = kw
            /\ \A j \in 1..(i - 1) : SubSeq(s, j, j + Len(kw) - 1) # kw
    ELSE 0

(***************************************************************************)
(* Intent enumeration (intent_mapping.py:18-26): the values of the enum    *)
(***************************************************************************)
ADD      == "add_task"
LIST     == "list_tasks"
GET      == "get_task"
UPDATE   == "update_task"
DELETE   == "delete_task"
COMPLETE == "complete_task"
UNKNOWN  == "unknown"

Intent == {ADD, LIST, GET, UPDATE, DELETE, COMPLETE, UNKNOWN}

(***************************************************************************)
(* Regular expressions of the rule table.  A pattern r"^a\s+b" is the      *)
(* sequence <<"a", WS, "b">>: literal pieces and whitespace runs (\s+);    *)
(* every pattern of the table starts with the anchor ^.                    *)
(***************************************************************************)
WS == "\\s+"

\* does pat[k..] match s at position i (any end position)
RECURSIVE MatchFrom(_, _, _, _)
MatchFrom(pat, k, s, i) ==
    IF k > Len(pat) THEN TRUE
    ELSE IF pat[k] = WS
         THEN \E j \in (i + 1)..(Len(s) + 1) :
                 /\ \A t \in i..(j - 1) : IsSpace(Char(s, t))
                 /\ MatchFrom(pat, k + 1, s, j)
         ELSE LET n == Len(pat[k]) IN
                 /\ i + n - 1 <= Len(s)
                 /\ SubSeq(s, i, i + n - 1) = pat[k]
                 /\ MatchFrom(pat, k + 1, s, i + n)

\* the search had the pattern lost its anchor: a match at any position
ReSearchAnywhere(pat, s) == \E i \in 1..(Len(s) + 1) : MatchFrom(pat, 1, s, i)

\* re.search(r"^...", s): without re.MULTILINE the anchor is position 0 only
ReSearchAnchored(pat, s) == MatchFrom(pat, 1, s, 1)

(***************************************************************************)
(* IntentMapper.INTENT_PATTERNS (intent_mapping.py:34-145): a dict, which  *)
(* iterates in insertion order, modelled as the sequence of its items.     *)
(***************************************************************************)
IntentTable == <<
    [intent |-> ADD,
     keywords |-> <<"add", "create", "new task", "add task", "create task",
                    "remember", "make a task", "i need to">>,
     patterns |-> << <<"add", WS>>, <<"create", WS>>, <<"new", WS, "task", WS>>,
                     <<"remember", WS>>, <<"add task">>, <<"create task">>,
                     <<"i need to ">> >>],
    [intent |-> LIST,
     keywords |-> <<"list", "show", "all tasks", "my tasks", "what tasks",
                    "tasks do i have", "what do i need">>,
     patterns |-> << <<"list", WS>>, <<"show", WS>>, <<"all", WS, "tasks">>,
                     <<"my", WS, "tasks">>, <<"what tasks">>, <<"what do i">> >>],
    [intent |-> GET,
     keywords |-> <<"get", "show task", "details", "tell me about">>,
     patterns |-> << <<"get", WS>>, <<"show task">>, <<"details", WS>>,
                     <<"tell me about">> >>],
    [intent |-> UPDATE,
     keywords |-> <<"update", "edit", "change", "modify", "rename">>,
     patterns |-> << <<"update", WS>>, <<"edit", WS>>, <<"change", WS>>,
                     <<"modify", WS>>, <<"rename", WS>> >>],
    [intent |-> DELETE,
     keywords |-> <<"delete", "remove", "trash", "discard", "get rid of">>,
     patterns |-> << <<"delete", WS>>, <<"remove", WS>>, <<"trash", WS>>,
                     <<"discard", WS>>, <<"get rid of">> >>],
    [intent |-> COMPLETE,
     keywords |-> <<"complete", "done", "finish", "check off", "mark done",
                    "mark as done">>,
     patterns |-> << <<"complete", WS>>, <<"done", WS, "with">>, <<"finish", WS>>,
                     <<"check off">>, <<"mark", WS, "done">>, <<"mark as done">> >>]
>>

(***************************************************************************)
(* IntentMapper.extract_intent (intent_mapping.py:147-182)                 *)
(***************************************************************************)
\* some pattern of rule `rule` matches the normalized message (lines 171-173)
RulePatternMatches(rule, message) ==
    \E p \in 1..Len(rule.patterns) : ReSearchAnchored(rule.patterns[p], message)

\* some keyword of rule `rule` occurs in the normalized message (lines 177-179)
RuleKeywordOccurs(rule, message) ==
    LET lowered == Lower(message) IN
    \E k \in 1..Len(rule.keywords) : Contains(lowered, Lower(rule.keywords[k]))

\* the first loop (lines 170-173), from item k of the table on
RECURSIVE PatternPass(_, _, _)
PatternPass(table, message, k) ==
    IF k > Len(table) THEN UNKNOWN
    ELSE IF RulePatternMatches(table[k], message) THEN table[k].intent
    ELSE PatternPass(table, message, k + 1)

\* the second loop (lines 176-179), from item k of the table on
RECURSIVE KeywordPass(_, _, _)
KeywordPass(table, message, k) ==
    IF k > Len(table) THEN UNKNOWN
    ELSE IF RuleKeywordOccurs(table[k], message) THEN table[k].intent
    ELSE KeywordPass(table, message, k + 1)

\* the two loops merged into one: per intent, its patterns and then its keywords
RECURSIVE MergedPass(_, _, _)
MergedPass(table, message, k) ==
    IF k > Len(table) THEN [intent |-> UNKNOWN, confidence |-> 0]
    ELSE IF RulePatternMatches(table[k], message)
         THEN [intent |-> table[k].intent, confidence |-> 10]
    ELSE IF RuleKeywordOccurs(table[k], message)
         THEN [intent |-> table[k].intent, confidence |-> 7]
    ELSE MergedPass(table, message, k + 1)

extract_intent_merged(table, user_message) ==
    MergedPass(table, Lower(Strip(user_message)), 1)

extract_intent(table, user_message) ==
    LET message == Lower(Strip(user_message))
        byPattern == PatternPass(table, message, 1)
        byKeyword == KeywordPass(table, message, 1)
    IN  IF byPattern # UNKNOWN THEN [intent |-> byPattern, confidence |-> 10]
        ELSE IF byKeyword # UNKNOWN THEN [intent |-> byKeyword, confidence |-> 7]
        ELSE [intent |-> UNKNOWN, confidence |-> 0]

(***************************************************************************)
(* IntentMapper.get_tool_name and get_fallback_response                    *)
(* (intent_mapping.py:184-207)                                             *)
(***************************************************************************)
get_tool_name(intent) == intent

\* IntentMapper.should_confirm (intent_mapping.py:189-193)
should_confirm(intent) == intent = DELETE

get_fallback_response(intent) ==
    CASE intent = ADD      -> "I couldn't create that task. Please try again."
      [] intent = LIST     -> "I couldn't retrieve your tasks. Please try again."
      [] intent = GET      -> "I couldn't find that task. Please try again."
      [] intent = UPDATE   -> "I couldn't update that task. Please try again."
      [] intent = DELETE   -> "I couldn't delete that task. Please try again."
      [] intent = COMPLETE -> "I couldn't mark that task. Please try again."
      [] intent = UNKNOWN  -> "I didn't understand your request. You can ask me to create, list, complete, update, or delete tasks."
      [] OTHER             -> "Something went wrong. Please try again."

(***************************************************************************)
(* AgentService._extract_parameters (agent.py:172-258)                     *)
(***************************************************************************)
Max(S) == CHOOSE x \in S : \A y \in S : x >= y
Least(S) == CHOOSE x \in S : \A y \in S : x <= y

\* the end positions (index after the last matched character) of the matches
\* of pat[k..] at position i of s
RECURSIVE MatchEnds(_, _, _, _)
MatchEnds(pat, k, s, i) ==
    IF k > Len(pat) THEN {i}
    ELSE IF pat[k] = WS
         THEN UNION {MatchEnds(pat, k + 1, s, j) :
                        j \in {j \in (i + 1)..(Len(s) + 1) :
                                  \A t \in i..(j - 1) : IsSpace(Char(s, t))}}
         ELSE LET n == Len(pat[k]) IN
              IF i + n - 1 <= Len(s) /\ SubSeq(s, i, i + n - 1) = pat[k]
              THEN MatchEnds(pat, k + 1, s, i + n)
              ELSE {}

\* the index after the longest run of characters other than newline that
\* starts at position i: what the greedy `.+` consumes from i
RECURSIVE DotRunEnd(_, _)
DotRunEnd(s, i) ==
    IF i <= Len(s) /\ Char(s, i) # "\n" THEN DotRunEnd(s, i + 1) ELSE i

\* `$` without re.MULTILINE: at the end of s or before a newline that ends s
AtDollar(s, i) ==
    \/ i = Len(s) + 1
    \/ i = Len(s) /\ Char(s, i) = "\n"

\* the Add extraction patterns (agent.py:190-195); an entry stands for
\* r"^(?:alts)tail(.+)$"
AddExtractionPatterns == <<
    [alts |-> <<"add", "create", "remember">>, tail |-> <<WS>>],
    [alts |-> <<"add", "create", "remember">>, tail |-> <<WS, "task", WS>>],
    [alts |-> <<"new">>, tail |-> <<WS, "task", WS>>],
    [alts |-> <<"task">>, tail |-> <<WS, "to", WS>>]
>>

\* start positions of group 1 over all ways in which r"^(?:alts)tail(.+)$"
\* matches s
AddGroupStarts(ep, s) ==
    {j \in UNION {MatchEnds(<<ep.alts[a]>> \o ep.tail, 1, s, 1) :
                     a \in 1..Len(ep.alts)} :
        /\ DotRunEnd(s, j) > j
        /\ AtDollar(s, DotRunEnd(s, j))}

\* re.search(pattern, s) for an Add extraction pattern: group 1, or "" when
\* there is no match (a match never has an empty group 1).  The whitespace run
\* before the group is greedy, so the match found first has the latest start.
AddGroup(ep, s) ==
    LET starts == AddGroupStarts(ep, s) IN
    IF starts = {} THEN ""
    ELSE SubSeq(s, Max(starts), DotRunEnd(s, Max(starts)) - 1)

\* the loop over the patterns (agent.py:197-202), from pattern k on: the
\* index of the first pattern that matches, 0 when none does
RECURSIVE FirstAddPattern(_, _)
FirstAddPattern(s, k) ==
    IF k > Len(AddExtractionPatterns) THEN 0
    ELSE IF AddGroupStarts(AddExtractionPatterns[k], s) # {} THEN k
    ELSE FirstAddPattern(s, k + 1)

AddFallbackKeywords == <<"add", "create", "remember", "task">>

\* the fallback had it stopped at the first keyword that occurs, whatever
\* follows it
RECURSIVE AddFallbackTitleFirstFound(_, _)
AddFallbackTitleFirstFound(user_input, k) ==
    IF k > Len(AddFallbackKeywords) THEN "Untitled task"
    ELSE LET kw  == AddFallbackKeywords[k]
             pos == Find(Lower(user_input), kw)
         IN  IF pos # 0
             THEN Strip(SubSeq(user_input, pos + Len(kw), Len(user_input)))
             ELSE AddFallbackTitleFirstFound(user_input, k + 1)

\* the for/else fallback (agent.py:209-219), from keyword k on
RECURSIVE AddFallbackTitle(_, _)
AddFallbackTitle(user_input, k) ==
    IF k > Len(AddFallbackKeywords) THEN "Untitled task"
    ELSE LET kw  == AddFallbackKeywords[k]
             pos == Find(Lower(user_input), kw)
             extracted_title == Strip(SubSeq(user_input, pos + Len(kw), Len(user_input)))
         IN  IF pos # 0 /\ extracted_title # ""
             THEN extracted_title
             ELSE AddFallbackTitle(user_input, k + 1)

AddTitle(user_input) ==
    LET s == Strip(Lower(user_input))
        k == FirstAddPattern(s, 1)
    IN  IF k # 0 THEN Strip(AddGroup(AddExtractionPatterns[k], s))
        ELSE AddFallbackTitle(user_input, 1)

\* re.search(r"\d+", s): the leftmost, longest run of digits; "" when none
RECURSIVE DigitRunEnd(_, _)
DigitRunEnd(s, i) ==
    IF i <= Len(s) /\ IsDigit(Char(s, i)) THEN DigitRunEnd(s, i + 1) ELSE i

HasDigit(s) == \E i \in 1..Len(s) : IsDigit(Char(s, i))

\* the search had it been for a single digit, r"\d"
FirstDigit(s) ==
    IF \A i \in 1..Len(s) : ~IsDigit(Char(s, i)) THEN ""
    ELSE Char(s, Least({i \in 1..Len(s) : IsDigit(Char(s, i))}))

FirstDigitRun(s) ==
    IF ~HasDigit(s) THEN ""
    ELSE LET d == Least({i \in 1..Len(s) : IsDigit(Char(s, i))})
         IN  SubSeq(s, d, DigitRunEnd(s, d) - 1)

\* the pattern had it been r"(\d+)\s+(.+)", without the optional "to"
UpdateGroup2StartKeepingTo(s, d) ==
    LET e  == DigitRunEnd(s, d)
        P  == {p \in (e + 1)..(Len(s) + 1) : \A t \in e..(p - 1) : IsSpace(Char(s, t))}
        start(p) == IF p <= Len(s) /\ Char(s, p) # "\n" THEN p ELSE 0
        good == {p \in P : start(p) # 0}
    IN  IF good = {} THEN 0 ELSE start(Max(good))

\* r"(?:task\s+)?(\d+)\s+(?:to\s+)?(.+)" with (\d+) starting at d (agent.py:246):
\* the start of group 2 in the match the backtracking search finds first, 0 when
\* there is none.  \s+ and the optional group are greedy: the longest run of
\* whitespace after the digits is tried first, and for each, "to\s+" before
\* the bare `.+`.
UpdateGroup2Start(s, d) ==
    LET e  == DigitRunEnd(s, d)
        P  == {p \in (e + 1)..(Len(s) + 1) : \A t \in e..(p - 1) : IsSpace(Char(s, t))}
        QA(p) == IF p + 1 <= Len(s) /\ SubSeq(s, p, p + 1) = "to"
                 THEN {q \in (p + 3)..Len(s) :
                          /\ \A t \in (p + 2)..(q - 1) : IsSpace(Char(s, t))
                          /\ Char(s, q) # "\n"}
                 ELSE {}
        start(p) == IF QA(p) # {} THEN Max(QA(p))
                    ELSE IF p <= Len(s) /\ Char(s, p) # "\n" THEN p
                    ELSE 0
        good == {p \in P : start(p) # 0}
    IN  IF good = {} THEN 0 ELSE start(Max(good))

\* positions of digits from which the Update pattern matches
UpdateDigitStarts(s) ==
    {d \in 1..Len(s) : IsDigit(Char(s, d)) /\ UpdateGroup2Start(s, d) # 0}

_extract_parameters(intent, user_input, user_id) ==
    LET params == [user_id |-> user_id] IN
    CASE intent = ADD ->
            params @@ ("title" :> AddTitle(user_input))
      [] intent = LIST ->
            params @@ ("include_completed" :> ~Contains(Lower(user_input), "completed"))
      [] intent = COMPLETE ->
            (IF HasDigit(user_input)
             THEN params @@ ("task_id" :> FirstDigitRun(user_input))
             ELSE params)
            @@ ("completed" :> ~Contains(Lower(user_input), "uncomplete"))
      [] intent \in {DELETE, GET} ->
            IF HasDigit(user_input)
            THEN params @@ ("task_id" :> FirstDigitRun(user_input))
            ELSE params
      [] intent = UPDATE ->
            LET D == UpdateDigitStarts(user_input) IN
            IF D = {} THEN params
            ELSE LET d == Least(D)
                     g == UpdateGroup2Start(user_input, d)
                 IN  params @@ ("task_id" :> SubSeq(user_input, d, DigitRunEnd(user_input, d) - 1))
                            @@ ("title" :> Strip(SubSeq(user_input, g, DotRunEnd(user_input, g) - 1)))
      [] OTHER -> params

(***************************************************************************)
(* The tasks table and TaskMCPServer (mcp_servers/task_mcp/main.py).       *)
(* A table is a function from the ids of its rows to the rows; the         *)
(* created_at / updated_at columns are left out of rows and results, and   *)
(* the creation order of rows is the order of their ids.  Python's None    *)
(* is the string "None", which is also how an f-string renders it.         *)
(***************************************************************************)
None == "None"

MaxTitleLen == 200

DigitValOf == [c \in DigitChars |->
                  (CHOOSE i \in 1..Len(Digits) : Char(Digits, i) = c) - 1]

DigitVal(c) == DigitValOf[c]

\* int(s) for a string of decimal digits
RECURSIVE ParseInt(_)
ParseInt(s) ==
    IF s = "" THEN 0
    ELSE 10 * ParseInt(SubSeq(s, 1, Len(s) - 1)) + DigitVal(Char(s, Len(s)))

\* int(s) succeeds (over the strings the parameter extractor can pass)
IsIntLiteral(s) == s # "" /\ \A i \in 1..Len(s) : IsDigit(Char(s, i))

Get(d, key, default) == IF key \in DOMAIN d THEN d[key] ELSE default

Err(message, code) == [error |-> message, code |-> code]

IsError(tool_result) == "error" \in DOMAIN tool_result

TaskDict(id, row) ==
    [id |-> id, user_id |-> row.user_id, title |-> row.title,
     description |-> row.description, is_completed |-> row.is_completed]

\* the outcome of a tool: the tool that ran, its result and the tasks table
\* it leaves committed
Outcome(tool, result, table, next_id) ==
    [tool |-> tool, raised |-> FALSE, result |-> result, tasks |-> table,
     next_task_id |-> next_id]

\* the tool ended with an exception
Raised(tool, table, next_id) ==
    [tool |-> tool, raised |-> TRUE, result |-> Err("exception", 500),
     tasks |-> table, next_task_id |-> next_id]

\* What the database does to a tool call: "ok"; "fail", an exception inside
\* the tool's try block (a failed statement or commit, which persists
\* nothing); "raise", an exception before the try block (initialize_db or
\* opening the session), which the tool itself does not catch.
DbOutcomes == {"ok", "fail", "raise"}

\* add_task had it returned the task without committing the insert
add_task_uncommitted(args, table, next_id, db) ==
    LET title == Strip(Get(args, "title", "")) IN
    IF title = "" THEN Outcome("add_task", Err("Task title cannot be empty", 400), table, next_id)
    ELSE Outcome("add_task",
                 TaskDict(next_id, [user_id |-> args.user_id, title |-> title,
                                    description |-> None, is_completed |-> FALSE]),
                 table, next_id)

\* TaskMCPServer.add_task (main.py:158-195)
add_task(args, table, next_id, db) ==
    LET title == Strip(Get(args, "title", "")) IN
    IF title = "" THEN Outcome("add_task", Err("Task title cannot be empty", 400), table, next_id)
    ELSE IF Len(title) > MaxTitleLen
    THEN Outcome("add_task", Err("Task title cannot exceed 200 characters", 400), table, next_id)
    ELSE IF db = "raise" THEN Raised("add_task", table, next_id)
    ELSE IF db = "fail" THEN Outcome("add_task", Err("Failed to create task", 500), table, next_id)
    ELSE LET row == [user_id |-> args.user_id, title |-> title,
                     description |-> None, is_completed |-> FALSE]
         IN  Outcome("add_task", TaskDict(next_id, row), table @@ (next_id :> row), next_id + 1)

\* rows of `ids` as dicts, newest first (ORDER BY created_at DESC)
RECURSIVE TaskDictsDesc(_, _)
TaskDictsDesc(table, ids) ==
    IF ids = {} THEN <<>>
    ELSE LET m == Max(ids) IN
         <<TaskDict(m, table[m])>> \o TaskDictsDesc(table, ids \ {m})

\* list_tasks had it left out the filter on is_completed
list_tasks_unfiltered(args, table, next_id, db) ==
    LET ids == {i \in DOMAIN table : table[i].user_id = args.user_id}
    IN  IF db = "raise" THEN Raised("list_tasks", table, next_id)
        ELSE IF db = "fail" THEN Outcome("list_tasks", Err("Failed to list tasks", 500), table, next_id)
        ELSE Outcome("list_tasks", [tasks |-> TaskDictsDesc(table, ids)], table, next_id)

\* TaskMCPServer.list_tasks (main.py:197-229)
list_tasks(args, table, next_id, db) ==
    LET include_completed == Get(args, "include_completed", TRUE)
        ids == {i \in DOMAIN table :
                   /\ table[i].user_id = args.user_id
                   /\ (~include_completed => table[i].is_completed = FALSE)}
    IN  IF db = "raise" THEN Raised("list_tasks", table, next_id)
        ELSE IF db = "fail" THEN Outcome("list_tasks", Err("Failed to list tasks", 500), table, next_id)
        ELSE Outcome("list_tasks", [tasks |-> TaskDictsDesc(table, ids)], table, next_id)

\* the lookup had it selected the row by its id alone
LookupAnyOwner(args, table, db, what) ==
    IF "task_id" \notin DOMAIN args THEN Err("Failed to " \o what \o " task", 500)
    ELSE IF ~IsIntLiteral(args.task_id) THEN Err("Invalid task ID format", 400)
    ELSE IF db = "fail" THEN Err("Failed to " \o what \o " task", 500)
    ELSE LET id == ParseInt(args.task_id) IN
         IF id \in DOMAIN table
         THEN [found |-> id]
         ELSE Err("Task not found", 404)

\* the lookup shared by get_task, update_task, delete_task and complete_task
\* (main.py:239-246 and alike): the error it ends with, or the id of the row.
\* int(None) raises TypeError, which only `except Exception` catches.
Lookup(args, table, db, what) ==
    IF "task_id" \notin DOMAIN args THEN Err("Failed to " \o what \o " task", 500)
    ELSE IF ~IsIntLiteral(args.task_id) THEN Err("Invalid task ID format", 400)
    ELSE IF db = "fail" THEN Err("Failed to " \o what \o " task", 500)
    ELSE LET id == ParseInt(args.task_id) IN
         IF id \in DOMAIN table /\ table[id].user_id = args.user_id
         THEN [found |-> id]
         ELSE Err("Task not found", 404)

\* TaskMCPServer.get_task (main.py:231-260)
get_task(args, table, next_id, db) ==
    LET l == Lookup(args, table, db, "get") IN
    IF db = "raise" THEN Raised("get_task", table, next_id)
    ELSE IF IsError(l) THEN Outcome("get_task", l, table, next_id)
    ELSE Outcome("get_task", TaskDict(l.found, table[l.found]), table, next_id)

\* TaskMCPServer.update_task (main.py:262-313); the chat never passes a description
update_task(args, table, next_id, db) ==
    LET l == Lookup(args, table, db, "update") IN
    IF db = "raise" THEN Raised("update_task", table, next_id)
    ELSE IF IsError(l) THEN Outcome("update_task", l, table, next_id)
    ELSE LET has_title == "title" \in DOMAIN args
             title == Strip(Get(args, "title", ""))
             row == IF has_title THEN [table[l.found] EXCEPT !.title = title]
                    ELSE table[l.found]
         IN  IF has_title /\ title = ""
             THEN Outcome("update_task", Err("Task title cannot be empty", 400), table, next_id)
             ELSE IF has_title /\ Len(title) > MaxTitleLen
             THEN Outcome("update_task", Err("Task title cannot exceed 200 characters", 400), table, next_id)
             ELSE Outcome("update_task", TaskDict(l.found, row), [table EXCEPT ![l.found] = row], next_id)

\* TaskMCPServer.delete_task (main.py:315-343)
delete_task(args, table, next_id, db) ==
    LET l == Lookup(args, table, db, "delete") IN
    IF db = "raise" THEN Raised("delete_task", table, next_id)
    ELSE IF IsError(l) THEN Outcome("delete_task", l, table, next_id)
    ELSE Outcome("delete_task", [success |-> TRUE, message |-> "Task deleted successfully",
                  task_id |-> args.task_id],
                 [i \in DOMAIN table \ {l.found} |-> table[i]], next_id)

\* TaskMCPServer.complete_task (main.py:345-381)
complete_task(args, table, next_id, db) ==
    LET l == Lookup(args, table, db, "complete") IN
    IF db = "raise" THEN Raised("complete_task", table, next_id)
    ELSE IF IsError(l) THEN Outcome("complete_task", l, table, next_id)
    ELSE LET row == [table[l.found] EXCEPT !.is_completed = Get(args, "completed", TRUE)]
         IN  Outcome("complete_task", TaskDict(l.found, row), [table EXCEPT ![l.found] = row], next_id)

(***************************************************************************)
(* AgentService._invoke_tool (agent.py:260-299): the outcome and the       *)
(* invocations of the server's tools that were made                        *)
(***************************************************************************)
\* the dispatch had its last branch called update_task
DispatchCrossed(tool_name, args, table, next_id, db) ==
    CASE tool_name = "add_task"      -> add_task(args, table, next_id, db)
      [] tool_name = "list_tasks"    -> list_tasks(args, table, next_id, db)
      [] tool_name = "get_task"      -> get_task(args, table, next_id, db)
      [] tool_name = "update_task"   -> update_task(args, table, next_id, db)
      [] tool_name = "delete_task"   -> delete_task(args, table, next_id, db)
      [] tool_name = "complete_task" -> update_task(args, table, next_id, db)
      [] OTHER -> Outcome("", [error |-> "Unknown tool: " \o tool_name], table, next_id)

\* the dispatch (agent.py:278-293)
Dispatch(tool_name, args, table, next_id, db) ==
    CASE tool_name = "add_task"      -> add_task(args, table, next_id, db)
      [] tool_name = "list_tasks"    -> list_tasks(args, table, next_id, db)
      [] tool_name = "get_task"      -> get_task(args, table, next_id, db)
      [] tool_name = "update_task"   -> update_task(args, table, next_id, db)
      [] tool_name = "delete_task"   -> delete_task(args, table, next_id, db)
      [] tool_name = "complete_task" -> complete_task(args, table, next_id, db)
      [] OTHER -> Outcome("", [error |-> "Unknown tool: " \o tool_name], table, next_id)

\* the record of one invocation of a tool of the server
Invocation(args, o) ==
    [tool |-> o.tool, args |-> args, raised |-> o.raised, result |-> o.result]

\* _invoke_tool without its try/except: an exception of the tool propagates
_invoke_tool_unguarded(tool_name, params, user_id, table, next_id, db) ==
    LET args == [params EXCEPT !.user_id = user_id]
        o == Dispatch(tool_name, args, table, next_id, db)
        invoked == IF o.tool # "" THEN <<Invocation(args, o)>> ELSE <<>>
    IN  [invoked |-> invoked, raised |-> o.raised, tasks |-> o.tasks,
         next_task_id |-> o.next_task_id, result |-> o.result]

_invoke_tool(tool_name, params, user_id, table, next_id, db) ==
    LET args == [params EXCEPT !.user_id = user_id]
        o == Dispatch(tool_name, args, table, next_id, db)
        invoked == IF o.tool # "" THEN <<Invocation(args, o)>> ELSE <<>>
    IN  [invoked |-> invoked, raised |-> FALSE, tasks |-> o.tasks,
         next_task_id |-> o.next_task_id,
         result |-> IF o.raised THEN Err("Tool execution failed", 500) ELSE o.result]

(***************************************************************************)
(* AgentService._generate_response (agent.py:301-340).  The emoji that     *)
(* open the templates are written as bracketed names.                      *)
(***************************************************************************)
RECURSIVE TaskLines(_)
TaskLines(ts) ==
    IF ts = <<>> THEN ""
    ELSE "- [" \o ToString(ts[1].id) \o "] " \o ts[1].title \o " "
         \o (IF ts[1].is_completed THEN "[v]" ELSE "")
         \o (IF Len(ts) > 1 THEN "\n" ELSE "") \o TaskLines(Tail(ts))

\* str(tool_result.get('id'))
IdText(tool_result) ==
    IF "id" \in DOMAIN tool_result THEN ToString(tool_result.id) ELSE None

_generate_response(intent, tool_result, user_input, user_context) ==
    CASE intent = ADD -> "[ok] Created task: " \o Get(tool_result, "title", "task")
      [] intent = LIST ->
            LET ts == Get(tool_result, "tasks", <<>>) IN
            IF ts = <<>> THEN "You don't have any tasks yet."
            ELSE "Here are your tasks:\n" \o TaskLines(ts)
      [] intent = COMPLETE -> "[ok] Marked task " \o IdText(tool_result) \o " as done."
      [] intent = DELETE -> "[bin] Deleted task " \o IdText(tool_result) \o "."
      [] intent = UPDATE -> "[pen] Updated task: " \o Get(tool_result, "title", "task")
      [] intent = GET ->
            "[note] **" \o Get(tool_result, "title", "Task") \o "**\n"
            \o Get(tool_result, "description", "No description")
      [] OTHER -> "Operation completed."

(***************************************************************************)
(* Inputs                                                                  *)
(***************************************************************************)
Users == {"alice", "bob"}
ConvIds == 1..MaxConvs

Vocab == {"add", "create", "list", "show", "task", "tasks", "all", "get",
          "delete", "done", "update", "1"}

RECURSIVE WordMessages(_)
WordMessages(n) ==
    IF n = 0 THEN {}
    ELSE IF n = 1 THEN Vocab
    ELSE WordMessages(n - 1)
         \cup {m \o " " \o w : m \in WordMessages(n - 1), w \in Vocab}

Corpus == {
    "add buy milk at the store", "Add Buy Milk", "  add   buy milk  ",
    "add Buy Milk", "complete task 12 or 3", "delete 7", "get 10",
    "my task is to add milk", "we create", "remember", "Please Add Milk",
    "update 12 tomorrow", "update task 3  ", "change 2 to", "Update Task 2 To Tea",
    "fix 12a 3 x", "update 1 a\nb", "update task 12",
    "add", "add\tlist all", "add task", "add task buy milk", "create task x",
    "new task buy milk", "remember the milk", "i need to finish homework",
    "please add milk", "list add", "list", "show all tasks", "show task 1",
    "all tasks", "my  tasks", "what tasks do i have", "what do i need",
    "get task 1", "get rid of task 1", "please get rid of 1", "details 1",
    "tell me about task 2", "update task 2 to new title", "update task 1",
    "edit 1 x", "rename", "delete task 1", "remove 2", "trash 1", "discard 1",
    "complete task 5", "uncomplete task 1", "done with 1", "done", "finish 1",
    "check off 1", "mark done 1", "mark as done 1", "mark task 1 done",
    "hello", "what is the weather", "LIST", "\n", "task to call mom",
    "show completed", "delete and create" }

Messages == Corpus \cup WordMessages(MaxWords)

\* the messages of the chat requests
ChatMessages == {"add buy milk", "show all tasks", "get task 1", "complete task 1",
                 "delete task 1", "delete task", "update task 1 to tea", "hello"}

\* the chat requests that can be in progress at the same time
Slots == {1}

NoCall == [kind |-> "none"]

\* extract_intent and _extract_parameters on the chat messages, evaluated once
IntentOfChatMessage ==
    [m \in ChatMessages |-> extract_intent(IntentTable, m)]

ParametersOfChatMessage ==
    [m \in ChatMessages, u \in Users |->
        _extract_parameters(IntentOfChatMessage[m].intent, m, u)]

(***************************************************************************)
(* AgentService.process_message (agent.py:26-170): what it returns, the    *)
(* tasks table it leaves, and the tools of the Task MCP server it invoked  *)
(***************************************************************************)
ClarificationText ==
    "I didn't understand your request. You can ask me to:\n"
    \o "- Create a task (e.g., 'add buy groceries')\n"
    \o "- List your tasks (e.g., 'show all tasks')\n"
    \o "- Complete a task (e.g., 'mark task 1 done')\n"
    \o "- Update a task (e.g., 'change task 1 to buy milk')\n"
    \o "- Delete a task (e.g., 'delete task 1')"

ConfidenceThreshold == 5

\* the gate had it been left out
NeverRejected(intent, confidence) == FALSE

\* agent.py:73: the turn is rejected for Unknown or low confidence
Rejected(intent, confidence) ==
    intent = UNKNOWN \/ confidence < ConfidenceThreshold

\* the record had it been appended whatever the result
ToolCallsAlways(tool_name, params, tool_result) ==
    << [tool |-> tool_name, parameters |-> params, result |-> tool_result] >>

\* agent.py:85 and 136-159: the returned tool-call list
ToolCallsFor(tool_name, params, tool_result) ==
    IF IsError(tool_result) THEN <<>>
    ELSE << [tool |-> tool_name, parameters |-> params, result |-> tool_result] >>

\* agent.py:106-170: the enrichment, the response and the returned list, given
\* the outcome t of _invoke_tool
Respond(intent, confidence, tool_name, params, t, user_input, include_context) ==
    LET ran == [raised |-> t.raised, intent |-> intent, confidence |-> confidence,
                invoked |-> t.invoked, tasks |-> t.tasks,
                next_task_id |-> t.next_task_id, response |-> "", tool_calls |-> <<>>]
        user_context == IF include_context /\ ~IsError(t.result)
                        THEN [name |-> "User"] ELSE [name |-> None]
    IN  IF t.raised THEN ran
        ELSE [ran EXCEPT
                !.response = IF IsError(t.result)
                             THEN get_fallback_response(intent)
                             ELSE _generate_response(intent, t.result,
                                                     user_input, user_context),
                !.tool_calls = ToolCallsFor(tool_name, params, t.result)]

\* agent.py:84-99: the tool is named after the intent and invoked once
Invoke(intent, confidence, tool_name, params, user_id, user_input, include_context, tasks_table, next_id, db) ==
    Respond(intent, confidence, tool_name, params,
            _invoke_tool(tool_name, params, user_id, tasks_table, next_id, db),
            user_input, include_context)

\* agent.py:72-89: the gate on the extracted intent, then the parameters
Decide(ic, known, user_id, user_input, include_context, tasks_table, next_id, db) ==
    IF Rejected(ic.intent, ic.confidence)
    THEN [raised |-> FALSE, intent |-> ic.intent, confidence |-> ic.confidence,
          invoked |-> <<>>, tasks |-> tasks_table, next_task_id |-> next_id,
          response |-> ClarificationText, tool_calls |-> <<>>]
    ELSE Invoke(ic.intent, ic.confidence, get_tool_name(ic.intent),
                IF known THEN ParametersOfChatMessage[user_input, user_id]
                ELSE _extract_parameters(ic.intent, user_input, user_id),
                user_id, user_input, include_context, tasks_table, next_id, db)

\* process_message had it read the request off the first message of the
\* history passed in instead of off user_input
process_message_from_history(table, user_id, conversation_id, history, user_input, include_context, tasks_table, next_id, db) ==
    Decide(extract_intent(table, history[1].content), FALSE,
           user_id, history[1].content, include_context, tasks_table, next_id, db)

process_message(table, user_id, conversation_id, history, user_input, include_context, tasks_table, next_id, db) ==
    Decide(IF table = IntentTable /\ user_input \in ChatMessages
           THEN IntentOfChatMessage[user_input]
           ELSE extract_intent(table, user_input),
           table = IntentTable /\ user_input \in ChatMessages /\ user_id \in Users,
           user_id, user_input, include_context, tasks_table, next_id, db)

(***************************************************************************)
(* Direct calls of the pure functions                                      *)
(***************************************************************************)
\* no request: the shape of an entry of req
NoAgent == [raised |-> FALSE, intent |-> "", confidence |-> 0, invoked |-> <<>>,
            response |-> "", tool_calls |-> <<>>]

IdleReq == [pc |-> "idle", status |-> 0, user_id |-> "", conversation_id |-> 0,
            message |-> "", include_context |-> FALSE, foreign |-> FALSE,
            conv |-> 0, new_conv |-> FALSE, history |-> <<>>, pending |-> <<>>,
            agent |-> NoAgent, task_change |-> FALSE, cause |-> "", at |-> "",
            body |-> [detail |-> ""]]

InitChatVars ==
    /\ conversations = <<>>
    /\ messages = {}
    /\ tasks = <<>>
    /\ next_task_id = 1
    /\ next_conv_id = 1
    /\ clock = 1
    /\ req = [r \in Slots |-> IdleReq]
    /\ turns = 0
    /\ persisted = <<>>

InitIntent ==
    /\ INTENT_PATTERNS = IntentTable
    /\ in_msg \in Messages
    /\ out = NoCall
    /\ ncalls = 0
    /\ InitChatVars

\* the table with the item of `intent` moved to the front
MoveToFront(table, intent) ==
    SelectSeq(table, LAMBDA r : r.intent = intent)
    \o SelectSeq(table, LAMBDA r : r.intent # intent)

\* extract_intent had it kept the rule that matched last at the front of the table
ExtractIntentCall_Reordering ==
    /\ out = NoCall
    /\ \E u \in Users, c \in ConvIds :
          LET r == extract_intent(INTENT_PATTERNS, in_msg) IN
          /\ out' = [kind |-> "extract_intent", msg |-> in_msg, user |-> u, conv |-> c,
                     intent |-> r.intent, confidence |-> r.confidence]
          /\ INTENT_PATTERNS' = MoveToFront(INTENT_PATTERNS, r.intent)
    /\ ncalls' = ncalls + 1
    /\ UNCHANGED in_msg
    /\ UNCHANGED chatVars

\* a caller (any user, in any conversation) calls extract_intent(in_msg)
ExtractIntentCall ==
    /\ out = NoCall
    /\ \E u \in Users, c \in ConvIds :
          LET r == extract_intent(INTENT_PATTERNS, in_msg) IN
          out' = [kind |-> "extract_intent", msg |-> in_msg, user |-> u, conv |-> c,
                  intent |-> r.intent, confidence |-> r.confidence]
    /\ ncalls' = ncalls + 1
    /\ UNCHANGED <<INTENT_PATTERNS, in_msg>>
    /\ UNCHANGED chatVars

\* a caller calls _extract_parameters(intent, in_msg, u), as process_message
\* does (agent.py:89) and as the tests do with an intent of their choice
ExtractParametersCall ==
    /\ out = NoCall
    /\ \E u \in Users, intent \in Intent :
          out' = [kind |-> "extract_parameters", msg |-> in_msg, user |-> u,
                  intent |-> intent,
                  params |-> _extract_parameters(intent, in_msg, u)]
    /\ ncalls' = ncalls + 1
    /\ UNCHANGED <<INTENT_PATTERNS, in_msg>>
    /\ UNCHANGED chatVars

\* the next input arrives
ReceiveMessage ==
    /\ out # NoCall
    /\ ncalls < MaxCalls
    /\ in_msg' \in Corpus
    /\ out' = NoCall
    /\ UNCHANGED <<INTENT_PATTERNS, ncalls>>
    /\ UNCHANGED chatVars

NextIntent == ExtractIntentCall \/ ExtractParametersCall \/ ReceiveMessage

SpecIntent == InitIntent /\ [][NextIntent]_vars

(***************************************************************************)
(* ConversationService (app/services/conversation.py) and the messages     *)
(* table.  A row of messages: conversation_id, user_id, sender, content,   *)
(* tool_calls and created_at; its uuid is left out.  A JSON column holds   *)
(* Null or Json(value).                                                    *)
(***************************************************************************)
Null == <<>>
Json(v) == <<v>>

\* the rows had the query ordered them newest first
RECURSIVE OrderByCreatedAtDesc(_)
OrderByCreatedAtDesc(rows) ==
    IF rows = {} THEN <<>>
    ELSE LET first == CHOOSE x \in rows : \A y \in rows : x.created_at >= y.created_at
         IN  <<first>> \o OrderByCreatedAtDesc(rows \ {first})

\* rows ordered by created_at ascending (ORDER BY created_at)
RECURSIVE OrderByCreatedAt(_)
OrderByCreatedAt(rows) ==
    IF rows = {} THEN <<>>
    ELSE LET first == CHOOSE x \in rows : \A y \in rows : x.created_at <= y.created_at
         IN  <<first>> \o OrderByCreatedAt(rows \ {first})

\* load_conversation without the ownership check
load_conversation_unchecked(convs, msgs, conversation_id, user_id) ==
    IF conversation_id \notin DOMAIN convs
    THEN [error |-> "Conversation " \o ToString(conversation_id) \o " not found"]
    ELSE [conversation |-> conversation_id,
          messages |-> OrderByCreatedAt({m \in msgs : m.conversation_id = conversation_id})]

\* ConversationService.load_conversation (conversation.py:10-49): the
\* ValueError it raises, or the conversation and its messages
load_conversation(convs, msgs, conversation_id, user_id) ==
    IF conversation_id \notin DOMAIN convs
    THEN [error |-> "Conversation " \o ToString(conversation_id) \o " not found"]
    ELSE IF convs[conversation_id].user_id # user_id
    THEN [error |-> "Access denied: conversation does not belong to user"]
    ELSE [conversation |-> conversation_id,
          messages |-> OrderByCreatedAt({m \in msgs : m.conversation_id = conversation_id})]

\* the Message built by persist_user_message (conversation.py:89-95)
UserRow(conversation_id, user_id, content, now) ==
    [conversation_id |-> conversation_id, user_id |-> user_id, sender |-> "user",
     content |-> content, tool_calls |-> Null, created_at |-> now]

\* the Message built by persist_assistant_message (conversation.py:121-128)
AssistantRow(conversation_id, user_id, content, tool_calls, now) ==
    [conversation_id |-> conversation_id, user_id |-> user_id, sender |-> "assistant",
     content |-> content, tool_calls |-> tool_calls, created_at |-> now]

(***************************************************************************)
(* The chat endpoint (app/api/routes/chat.py:18-111) under get_session     *)
(* (app/core/database.py:27-37).  A request advances by the awaits of      *)
(* chat(); what it flushes stays in its session (req[r].pending, and the   *)
(* new conversation) until the commit.  db_ok = FALSE is a storage         *)
(* operation that raises: chat() answers 500 and get_session rolls back.   *)
(***************************************************************************)
Done(q, status, cause, body) ==
    [q EXCEPT !.pc = "done", !.status = status, !.cause = cause, !.body = body,
              !.at = q.pc, !.history = <<>>, !.pending = <<>>,
              !.include_context = FALSE, !.message = "", !.agent = NoAgent]

ServerError(q, cause) ==
    Done(q, 500, cause,
         [detail |-> "An unexpected error occurred processing your message"])

\* chat() had it let the caller into any conversation that exists
LoadOrCreateAnyOwner(r, u, cid, m, ic, db_ok) ==
    LET q == [IdleReq EXCEPT !.user_id = u, !.conversation_id = cid,
                             !.message = m, !.include_context = ic,
                             !.foreign = /\ cid \in DOMAIN conversations
                                         /\ conversations[cid].user_id # u]
    IN
    IF cid # 0
    THEN /\ req' = [req EXCEPT ![r] =
                      IF ~db_ok THEN ServerError(q, "storage")
                      ELSE IF cid \notin DOMAIN conversations
                      THEN Done(q, 404, "conversation", [detail |-> "not found"])
                      ELSE [q EXCEPT !.pc = "loaded", !.conv = cid,
                                     !.history = OrderByCreatedAt(
                                         {x \in messages : x.conversation_id = cid})]]
         /\ UNCHANGED next_conv_id
    ELSE /\ next_conv_id <= MaxConvs
         /\ req' = [req EXCEPT ![r] =
                      IF ~db_ok THEN ServerError(q, "storage")
                      ELSE [q EXCEPT !.pc = "loaded", !.conv = next_conv_id,
                                     !.new_conv = TRUE]]
         /\ next_conv_id' = IF db_ok THEN next_conv_id + 1 ELSE next_conv_id

\* chat.py:40-48: load the conversation named by the request or create one
LoadOrCreate(r, u, cid, m, ic, db_ok) ==
    LET q == [IdleReq EXCEPT !.user_id = u, !.conversation_id = cid,
                             !.message = m, !.include_context = ic,
                             !.foreign = /\ cid \in DOMAIN conversations
                                         /\ conversations[cid].user_id # u]
    IN
    IF cid # 0
    THEN LET l == load_conversation(conversations, messages, cid, u) IN
         /\ req' = [req EXCEPT ![r] =
                      IF ~db_ok THEN ServerError(q, "storage")
                      ELSE IF IsError(l)
                      THEN Done(q, 404, "conversation", [detail |-> l.error])
                      ELSE [q EXCEPT !.pc = "loaded", !.conv = l.conversation,
                                     !.history = l.messages]]
         /\ UNCHANGED next_conv_id
    ELSE /\ next_conv_id <= MaxConvs
         /\ req' = [req EXCEPT ![r] =
                      IF ~db_ok THEN ServerError(q, "storage")
                      ELSE [q EXCEPT !.pc = "loaded", !.conv = next_conv_id,
                                     !.new_conv = TRUE]]
         /\ next_conv_id' = IF db_ok THEN next_conv_id + 1 ELSE next_conv_id

\* a chat request arrives (chat.py:18-22) and chat() runs up to its first await
ChatBegin(r) ==
    /\ req[r].pc \in {"idle", "done"}
    /\ turns < MaxTurns
    /\ turns' = turns + 1
    /\ \E u \in Users, cid \in {0} \cup ConvIds, m \in ChatMessages,
          ic \in BOOLEAN, db_ok \in BOOLEAN :
          LoadOrCreate(r, u, cid, m, ic, db_ok)
    /\ UNCHANGED <<INTENT_PATTERNS, pureVars, conversations, messages, tasks,
                   next_task_id, clock, persisted>>

\* persist_user_message had it committed the session instead of flushing it
ChatPersistUserCommitting(r) ==
    /\ req[r].pc = "loaded"
    /\ LET q == req[r]
           row == UserRow(q.conv, q.user_id, q.message, clock)
       IN  /\ req' = [req EXCEPT ![r] =
                        [q EXCEPT !.pc = "user_persisted", !.new_conv = FALSE,
                                  !.pending = Append(q.pending, row)]]
           /\ conversations' = IF q.new_conv
                                THEN conversations @@ (q.conv :> [user_id |-> q.user_id])
                                ELSE conversations
           /\ messages' = messages \cup {row}
           /\ clock' = clock + 1
    /\ UNCHANGED <<INTENT_PATTERNS, pureVars, tasks, next_task_id, next_conv_id, turns,
                   persisted>>

\* chat.py:50-53: persist_user_message
ChatPersistUser(r) ==
    /\ req[r].pc = "loaded"
    /\ \E db_ok \in BOOLEAN :
          LET q == req[r] IN
          IF db_ok
          THEN /\ req' = [req EXCEPT ![r] =
                            [q EXCEPT !.pc = "user_persisted",
                                      !.pending = Append(q.pending,
                                          UserRow(q.conv, q.user_id, q.message, clock))]]
               /\ clock' = clock + 1
          ELSE /\ req' = [req EXCEPT ![r] = ServerError(q, "storage")]
               /\ UNCHANGED clock
    /\ UNCHANGED <<INTENT_PATTERNS, pureVars, conversations, messages, tasks,
                   next_task_id, next_conv_id, turns, persisted>>

\* chat.py:59: what process_message returned is kept; an exception of it ends
\* the request
ChatProcessed(r, a) ==
    LET q2 == [req[r] EXCEPT !.agent = [f \in DOMAIN NoAgent |-> a[f]],
                             !.task_change = (a.tasks # tasks)]
    IN  /\ a.next_task_id <= MaxTasks + 1
        /\ tasks' = a.tasks
        /\ next_task_id' = a.next_task_id
        /\ req' = [req EXCEPT ![r] =
                      IF a.raised THEN ServerError(q2, "agent")
                      ELSE [q2 EXCEPT !.pc = "processed"]]

\* chat.py:55-65: process_message on the history and the new user message
ChatProcess(r) ==
    /\ req[r].pc = "user_persisted"
    /\ \E db \in DbOutcomes :
          ChatProcessed(r, process_message(INTENT_PATTERNS, req[r].user_id, req[r].conv,
                                          req[r].history \o req[r].pending,
                                          req[r].message, req[r].include_context,
                                          tasks, next_task_id, db))
    /\ UNCHANGED <<INTENT_PATTERNS, pureVars, conversations, messages,
                   next_conv_id, clock, turns, persisted>>

\* the session had it committed what was flushed when persist_assistant_message
\* failed, instead of rolling it back
ChatPersistAssistantCommittingOnError(r) ==
    /\ req[r].pc = "processed"
    /\ \E db_ok \in BOOLEAN :
          LET q == req[r]
              tool_calls_json == IF q.agent.tool_calls # <<>>
                                 THEN Json([tools |-> q.agent.tool_calls])
                                 ELSE Null
          IN
          IF db_ok
          THEN /\ req' = [req EXCEPT ![r] =
                            [q EXCEPT !.pc = "assistant_persisted",
                                      !.pending = Append(q.pending,
                                          AssistantRow(q.conv, q.user_id, q.agent.response,
                                                       tool_calls_json, clock))]]
               /\ clock' = clock + 1
               /\ UNCHANGED <<conversations, messages, persisted>>
          ELSE /\ req' = [req EXCEPT ![r] = ServerError(q, "storage")]
               /\ conversations' = IF q.new_conv
                                    THEN conversations @@ (q.conv :> [user_id |-> q.user_id])
                                    ELSE conversations
               /\ messages' = messages \cup {q.pending[i] : i \in 1..Len(q.pending)}
               /\ persisted' = IF q.conv \in DOMAIN persisted
                                THEN [persisted EXCEPT ![q.conv] = @ \o q.pending]
                                ELSE persisted @@ (q.conv :> q.pending)
               /\ UNCHANGED clock
    /\ UNCHANGED <<INTENT_PATTERNS, pureVars, tasks, next_task_id, next_conv_id, turns>>

\* chat.py:67-78: persist_assistant_message
ChatPersistAssistant(r) ==
    /\ req[r].pc = "processed"
    /\ \E db_ok \in BOOLEAN :
          LET q == req[r]
              tool_calls_json == IF q.agent.tool_calls # <<>>
                                 THEN Json([tools |-> q.agent.tool_calls])
                                 ELSE Null
          IN
          IF db_ok
          THEN /\ req' = [req EXCEPT ![r] =
                            [q EXCEPT !.pc = "assistant_persisted",
                                      !.pending = Append(q.pending,
                                          AssistantRow(q.conv, q.user_id, q.agent.response,
                                                       tool_calls_json, clock))]]
               /\ clock' = clock + 1
          ELSE /\ req' = [req EXCEPT ![r] = ServerError(q, "storage")]
               /\ UNCHANGED clock
    /\ UNCHANGED <<INTENT_PATTERNS, pureVars, conversations, messages, tasks,
                   next_task_id, next_conv_id, turns, persisted>>

\* the ChatResponse (chat.py:90-97)
ChatResponse(q) ==
    [conversation_id |-> q.conv,
     assistant_message |-> q.pending[Len(q.pending)].content,
     tool_calls |-> [i \in 1..Len(q.agent.tool_calls) |->
                        [tool |-> q.agent.tool_calls[i].tool,
                         parameters |-> q.agent.tool_calls[i].parameters]]]

\* the commit had it written the conversation back as this request holds it:
\* the history it loaded and its own two messages
ChatCommitOverwriting(r) ==
    /\ req[r].pc = "assistant_persisted"
    /\ \E db_ok \in BOOLEAN :
          LET q == req[r]
              held == q.history \o q.pending
          IN
          IF db_ok
          THEN /\ conversations' = IF q.new_conv
                                   THEN conversations @@ (q.conv :> [user_id |-> q.user_id])
                                   ELSE conversations
               /\ messages' = {m \in messages : m.conversation_id # q.conv}
                                 \cup {held[i] : i \in 1..Len(held)}
               /\ persisted' = IF q.conv \in DOMAIN persisted
                                THEN [persisted EXCEPT ![q.conv] = @ \o q.pending]
                                ELSE persisted @@ (q.conv :> q.pending)
               /\ req' = [req EXCEPT ![r] = Done(q, 200, "", ChatResponse(q))]
          ELSE /\ req' = [req EXCEPT ![r] = ServerError(q, "storage")]
               /\ UNCHANGED <<conversations, messages, persisted>>
    /\ UNCHANGED <<INTENT_PATTERNS, pureVars, tasks, next_task_id, next_conv_id,
                   clock, turns>>

\* chat.py:80-97: save_conversation commits the session, then the response
ChatCommit(r) ==
    /\ req[r].pc = "assistant_persisted"
    /\ \E db_ok \in BOOLEAN :
          LET q == req[r] IN
          IF db_ok
          THEN /\ conversations' = IF q.new_conv
                                   THEN conversations @@ (q.conv :> [user_id |-> q.user_id])
                                   ELSE conversations
               /\ messages' = messages \cup {q.pending[i] : i \in 1..Len(q.pending)}
               /\ persisted' = IF q.conv \in DOMAIN persisted
                                THEN [persisted EXCEPT ![q.conv] = @ \o q.pending]
                                ELSE persisted @@ (q.conv :> q.pending)
               /\ req' = [req EXCEPT ![r] = Done(q, 200, "", ChatResponse(q))]
          ELSE /\ req' = [req EXCEPT ![r] = ServerError(q, "storage")]
               /\ UNCHANGED <<conversations, messages, persisted>>
    /\ UNCHANGED <<INTENT_PATTERNS, pureVars, tasks, next_task_id, next_conv_id,
                   clock, turns>>

Init ==
    /\ INTENT_PATTERNS = IntentTable
    /\ in_msg = ""
    /\ out = NoCall
    /\ ncalls = 0
    /\ InitChatVars

Next ==
    \E r \in Slots :
        \/ ChatBegin(r)
        \/ ChatPersistUser(r)
        \/ ChatProcess(r)
        \/ ChatPersistAssistant(r)
        \/ ChatCommit(r)

Spec == Init /\ [][Next]_vars

(***************************************************************************)
(* Chat requests served concurrently: two requests in progress at a time,  *)
(* each in its own session, their awaits interleaved.  What a session has  *)
(* flushed is seen by no other session before its commit.  The behaviour   *)
(* starts from a stored conversation of one committed turn.                *)
(***************************************************************************)
ConcSlots == {1, 2}

\* the requests of the concurrent behaviours: the owner, on the stored
\* conversation
ConcMessages == {"add buy milk", "hello"}

\* a request on the stored conversation arrives while another may be in progress
ConcBegin(r) ==
    /\ req[r].pc \in {"idle", "done"}
    /\ turns < MaxConcTurns
    /\ turns' = turns + 1
    /\ \E m \in ConcMessages, db_ok \in BOOLEAN :
          LoadOrCreate(r, "alice", 1, m, FALSE, db_ok)
    /\ UNCHANGED <<INTENT_PATTERNS, pureVars, conversations, messages, tasks,
                   next_task_id, clock, persisted>>

InitConc ==
    /\ INTENT_PATTERNS = IntentTable
    /\ in_msg = ""
    /\ out = NoCall
    /\ ncalls = 0
    /\ conversations = (1 :> [user_id |-> "alice"])
    /\ messages = {UserRow(1, "alice", "hello", 1),
                   AssistantRow(1, "alice", ClarificationText, Null, 2)}
    /\ persisted = (1 :> <<UserRow(1, "alice", "hello", 1),
                           AssistantRow(1, "alice", ClarificationText, Null, 2)>>)
    /\ tasks = <<>>
    /\ next_task_id = 1
    /\ next_conv_id = 2
    /\ clock = 3
    /\ req = [r \in ConcSlots |-> IdleReq]
    /\ turns = 0

NextConc ==
    \E r \in ConcSlots :
        \/ ConcBegin(r)
        \/ ChatPersistUser(r)
        \/ ChatProcess(r)
        \/ ChatPersistAssistant(r)
        \/ ChatCommit(r)

SpecConc == InitConc /\ [][NextConc]_vars

(***************************************************************************)
(* The chat endpoint over a tasks table that earlier turns have filled:    *)
(* every row was added by one of the users and may have been completed.    *)
(***************************************************************************)
StoredMessages == {"show all tasks", "show completed tasks", "complete task 1"}

StoredRows == {[user_id |-> u, title |-> "buy milk", description |-> None,
                is_completed |-> c] : u \in Users, c \in BOOLEAN}

\* a request that opens a conversation arrives
StoredBegin(r) ==
    /\ req[r].pc \in {"idle", "done"}
    /\ turns < MaxTurns
    /\ turns' = turns + 1
    /\ \E u \in Users, m \in StoredMessages, db_ok \in BOOLEAN :
          LoadOrCreate(r, u, 0, m, FALSE, db_ok)
    /\ UNCHANGED <<INTENT_PATTERNS, pureVars, conversations, messages, tasks,
                   next_task_id, clock, persisted>>

InitStored ==
    /\ INTENT_PATTERNS = IntentTable
    /\ in_msg = ""
    /\ out = NoCall
    /\ ncalls = 0
    /\ conversations = <<>>
    /\ messages = {}
    /\ persisted = <<>>
    /\ tasks \in [1..MaxTasks -> StoredRows]
    /\ next_task_id = MaxTasks + 1
    /\ next_conv_id = 1
    /\ clock = 1
    /\ req = [r \in Slots |-> IdleReq]
    /\ turns = 0

NextStored ==
    \E r \in Slots :
        \/ StoredBegin(r)
        \/ ChatPersistUser(r)
        \/ ChatProcess(r)
        \/ ChatPersistAssistant(r)
        \/ ChatCommit(r)

SpecStored == InitStored /\ [][NextStored]_vars

(***************************************************************************)
(* Properties of extract_intent                                            *)
(***************************************************************************)
\* the declaration order stated by the specification
DeclaredOrder == <<ADD, LIST, GET, UPDATE, DELETE, COMPLETE>>

\* positions in the declared order of the intents one of whose patterns
\* matches the normalized text n at its start
PatternHits(n) ==
    {k \in 1..Len(IntentTable) :
        \E p \in 1..Len(IntentTable[k].patterns) :
            MatchFrom(IntentTable[k].patterns[p], 1, n, 1)}

\* positions in the declared order of the intents one of whose keywords
\* occurs in the normalized text n
KeywordHits(n) ==
    {k \in 1..Len(IntentTable) :
        \E w \in 1..Len(IntentTable[k].keywords) :
            Contains(n, IntentTable[k].keywords[w])}

\* C1: the result of every call of extract_intent, made for any user in any
\* conversation after any calls on other messages, is the one value fixed by
\* the message text and the rule table as declared, and the rule table is
\* never modified.
C1_ExtractIntentFunctionOfText ==
    /\ INTENT_PATTERNS = IntentTable
    /\ out.kind = "extract_intent" =>
          [intent |-> out.intent, confidence |-> out.confidence]
              = extract_intent(IntentTable, out.msg)

\* a call for bob that follows calls on other messages
C1_Witness ==
    /\ out.kind = "extract_intent"
    /\ ncalls >= 2
    /\ out.user = "bob"
    /\ out.intent # UNKNOWN

\* C2: patterns of several intents matching -> the earliest in the order Add,
\* List, Get, Update, Delete, Complete; no pattern and keywords of several
\* intents -> the earliest of those; a pattern match of any intent wins over
\* a keyword of an earlier-declared intent.
C2_TieBreak ==
    out.kind = "extract_intent" =>
        LET n == Lower(Strip(out.msg))
            P == PatternHits(n)
            K == KeywordHits(n)
        IN  /\ P # {} => out.intent = DeclaredOrder[Least(P)]
            /\ (P = {} /\ K # {}) => out.intent = DeclaredOrder[Least(K)]

\* a List pattern matches and the keyword of the earlier-declared Add occurs
C2_Witness ==
    /\ out.kind = "extract_intent"
    /\ LET n == Lower(Strip(out.msg)) IN
          /\ Least(PatternHits(n) \cup {7}) = 2
          /\ 1 \in KeywordHits(n)
    /\ out.intent = LIST

\* patterns of two intents match the same message
C2_WitnessTwoPatterns ==
    /\ out.kind = "extract_intent"
    /\ Cardinality(PatternHits(Lower(Strip(out.msg)))) >= 2

Processed == {r \in Slots : req[r].pc \in {"processed", "assistant_persisted"}}

\* the rows of conversation c that are committed, by sender
Committed(c, sender) ==
    {m \in messages : m.conversation_id = c /\ m.sender = sender}

\* C4: a turn whose extracted intent is Unknown or whose confidence is below
\* 0.5 gets the fixed clarification text and an empty tool-call list, calls no
\* tool of the Task Store and leaves the tasks table alone, and process_message
\* does not raise.
C4_LowConfidenceClarifies ==
    /\ \A r \in Processed :
          (req[r].agent.intent = UNKNOWN \/ req[r].agent.confidence < 5) =>
              /\ req[r].agent.response = ClarificationText
              /\ req[r].agent.tool_calls = <<>>
              /\ req[r].agent.invoked = <<>>
              /\ ~req[r].task_change
    /\ \A r \in Slots : req[r].cause # "agent"

\* the turn of an unintelligible message has completed with status 200
C4_Witness ==
    \E r \in Slots :
        /\ req[r].pc = "done"
        /\ req[r].status = 200
        /\ req[r].body.assistant_message = ClarificationText
        /\ req[r].body.tool_calls = <<>>

\* C5: the returned tool-call list has length 0 or 1; length 1 exactly when a
\* tool of the Task Store was invoked and returned no error, and the record
\* then carries the invoked tool, the parameters passed to it and its result.
C5_ZeroOrOneToolCall ==
    \A r \in Processed :
        LET a == req[r].agent IN
        /\ Len(a.tool_calls) \in {0, 1}
        /\ Len(a.tool_calls) = 1 <=>
              (Len(a.invoked) >= 1 /\ ~a.invoked[1].raised /\ ~IsError(a.invoked[1].result))
        /\ Len(a.tool_calls) = 1 =>
              a.tool_calls[1] = [tool |-> a.invoked[1].tool,
                                 parameters |-> a.invoked[1].args,
                                 result |-> a.invoked[1].result]

\* a turn returned one tool-call record, and another returned none after an
\* invocation that ended in an error
C5_Witness ==
    \E r \in Processed :
        /\ Len(req[r].agent.tool_calls) = 1
        /\ req[r].agent.tool_calls[1].tool = "add_task"

\* C6: when the tool of the turn returns an error or raises, process_message
\* returns the fallback sentence of the intent and an empty tool-call list;
\* no request ends with an exception of the agent.
C6_FallbackOnToolFailure ==
    /\ \A r \in Processed :
          LET a == req[r].agent IN
          (a.invoked # <<>> /\ (a.invoked[1].raised \/ IsError(a.invoked[1].result))) =>
              /\ a.response = get_fallback_response(a.intent)
              /\ a.response # ClarificationText
              /\ a.tool_calls = <<>>
    /\ \A r \in Slots : ~(req[r].pc = "done" /\ req[r].cause = "agent")

\* a tool raised and the turn went on with the fallback sentence
C6_Witness ==
    \E r \in Processed :
        /\ req[r].agent.invoked # <<>>
        /\ req[r].agent.invoked[1].raised
        /\ req[r].agent.response = "I couldn't create that task. Please try again."

\* the tool named after each intent, as the specification lists them
ToolNamedAfter(intent) ==
    CASE intent = ADD      -> "add_task"
      [] intent = LIST     -> "list_tasks"
      [] intent = GET      -> "get_task"
      [] intent = UPDATE   -> "update_task"
      [] intent = DELETE   -> "delete_task"
      [] intent = COMPLETE -> "complete_task"

\* C7: a turn invokes no tool when it is rejected for Unknown or low
\* confidence, and otherwise exactly one, the tool named after its intent.
C7_AtMostOneTool ==
    \A r \in Processed :
        LET a == req[r].agent IN
        /\ Len(a.invoked) <= 1
        /\ (a.intent = UNKNOWN \/ a.confidence < 5) => a.invoked = <<>>
        /\ ~(a.intent = UNKNOWN \/ a.confidence < 5) =>
              /\ Len(a.invoked) = 1
              /\ a.invoked[1].tool = ToolNamedAfter(a.intent)

\* a Complete turn invoked complete_task
C7_Witness ==
    \E r \in Processed :
        /\ req[r].agent.intent = COMPLETE
        /\ Len(req[r].agent.invoked) = 1
        /\ req[r].agent.invoked[1].tool = "complete_task"

\* C8: a request that names a conversation owned by another user ends at
\* once with a failure that carries no message; it loads nothing, flushes
\* nothing, creates no conversation and invokes no tool, and the stored
\* conversations, messages and tasks are as before.
C8_CrossUserIsolation ==
    [][\A r \in Slots :
          (req'[r] # req[r] /\ req'[r].foreign) =>
              /\ req'[r].pc = "done"
              /\ req'[r].status \in {404, 500}
              /\ DOMAIN req'[r].body = {"detail"}
              /\ req'[r].conv = 0
              /\ ~req'[r].new_conv
              /\ req'[r].agent.invoked = <<>>
              /\ UNCHANGED <<conversations, messages, tasks, next_conv_id>>]_vars

\* bob named a conversation of alice that holds messages and got 404
C8_Witness ==
    \E r \in Slots :
        /\ req[r].pc = "done"
        /\ req[r].foreign
        /\ req[r].status = 404
        /\ req[r].user_id = "bob"
        /\ Committed(req[r].conversation_id, "user") # {}

\* C9: the conversation (when new), the user message and the assistant
\* message of a turn are committed in one step or not at all: a request that
\* ends in a failure leaves the stored conversations and messages as they
\* were, and every stored conversation holds as many assistant messages as
\* user messages, and at least one.
C9_MessagesAtomic ==
    [][/\ \A r \in Slots :
             (req'[r].pc = "done" /\ req[r].pc # "done" /\ req'[r].status # 200) =>
                 UNCHANGED <<conversations, messages>>
       /\ (messages' # messages \/ conversations' # conversations) =>
             \E r \in Slots :
                 /\ req[r].pc = "assistant_persisted"
                 /\ req'[r].status = 200
                 /\ Cardinality(messages' \ messages) = 2
                 /\ \E u \in messages' \ messages, a \in messages' \ messages :
                       /\ u.sender = "user" /\ u.content = req[r].message
                       /\ a.sender = "assistant" /\ a.content = req[r].agent.response
                       /\ u.conversation_id = req[r].conv
                       /\ a.conversation_id = req[r].conv
                 /\ (conversations' # conversations) <=> req[r].new_conv
       /\ \A c \in DOMAIN conversations' :
             /\ Cardinality({m \in messages' : m.conversation_id = c /\ m.sender = "user"})
                 = Cardinality({m \in messages' : m.conversation_id = c
                                                   /\ m.sender = "assistant"})
             /\ \E m \in messages' : m.conversation_id = c
      ]_vars

\* the commit of a turn on a new conversation failed: nothing of it is stored
C9_Witness ==
    \E r \in Slots :
        /\ req[r].pc = "done"
        /\ req[r].status = 500
        /\ req[r].at = "assistant_persisted"
        /\ req[r].new_conv
        /\ req[r].conv \notin DOMAIN conversations
        /\ \A m \in messages : m.conversation_id # req[r].conv

\* C10, as claimed: no turn leaves a change of the tasks table stored while
\* its messages are not
C10_WholeTurnAtomic ==
    \A r \in Slots :
        ~(req[r].pc = "done" /\ req[r].task_change /\ req[r].status # 200)

\* C10, amended: the tool call of a turn commits its change of the tasks table
\* on its own, before and apart from the messages: a task that add_task returns
\* is stored when process_message returns; the tasks table changes in no other
\* step; the messages of the turn are committed later, in a step that leaves
\* the tasks table alone; a failure after the tool call undoes nothing of it.
C10_TaskChangeCommittedFirst ==
    [][/\ \A r \in Slots :
             (req[r].pc = "user_persisted" /\ req'[r].pc = "processed"
              /\ req'[r].agent.tool_calls # <<>>
              /\ req'[r].agent.tool_calls[1].tool = "add_task") =>
                 LET t == req'[r].agent.tool_calls[1].result IN
                 /\ t.id \in DOMAIN tasks' \ DOMAIN tasks
                 /\ tasks'[t.id].title = t.title
                 /\ tasks'[t.id].user_id = req[r].user_id
       /\ tasks' # tasks =>
             /\ \E r \in Slots : req[r].pc = "user_persisted" /\ req'[r].task_change
             /\ UNCHANGED <<conversations, messages>>
       /\ \A r \in Slots :
             (req[r].pc \in {"processed", "assistant_persisted"} /\ req'[r] # req[r]) =>
                 /\ UNCHANGED tasks
                 /\ req'[r].task_change = req[r].task_change
      ]_vars

\* a task created by a turn is stored and the messages of the turn are not
C10_Witness ==
    \E r \in Slots :
        /\ req[r].pc = "done"
        /\ req[r].status = 500
        /\ req[r].task_change
        /\ req[r].at \in {"processed", "assistant_persisted"}
        /\ DOMAIN tasks # {}
        /\ \A m \in messages : m.conversation_id # req[r].conv

(***************************************************************************)
(* Properties of the stored history                                        *)
(***************************************************************************)
\* the requests that hold the history of an existing conversation
Loaded == {r \in Slots : /\ req[r].pc \in {"loaded", "user_persisted", "processed",
                                            "assistant_persisted"}
                         /\ ~req[r].new_conv}

\* C11: loading a conversation returns exactly the messages of its committed
\* turns, with their content, in the order in which they were persisted: per
\* turn the user message and then the assistant message, turn after turn; and
\* that is the history each request on an existing conversation works on.
C11_ReconstructionRoundTrip ==
    /\ DOMAIN persisted = DOMAIN conversations
    /\ \A c \in DOMAIN conversations :
          /\ load_conversation(conversations, messages, c,
                               conversations[c].user_id).messages = persisted[c]
          /\ \A i \in 1..Len(persisted[c]) :
                /\ persisted[c][i].conversation_id = c
                /\ persisted[c][i].sender = IF i % 2 = 1 THEN "user" ELSE "assistant"
    /\ \A r \in Loaded : req[r].history = persisted[req[r].conv]

\* a conversation of two committed turns, loaded as four messages in order
C11_Witness ==
    \E c \in DOMAIN conversations :
        /\ Len(persisted[c]) = 4
        /\ load_conversation(conversations, messages, c,
                             conversations[c].user_id).messages = persisted[c]
        /\ persisted[c][1].content # persisted[c][3].content

\* the rows of a sequence
Rows(seq) == {seq[i] : i \in 1..Len(seq)}

\* C12: when requests on one conversation run concurrently, each commit adds
\* the two messages of its turn and removes or changes no stored message; the
\* stored history of a conversation holds the messages of its committed turns
\* once each, and a load returns all of them in creation-time order.
C12_ConcurrentTurnsKept ==
    [][/\ messages \subseteq messages'
       /\ \A r \in ConcSlots :
             (req[r].pc = "assistant_persisted" /\ req'[r].status = 200) =>
                 /\ messages' \ messages = Rows(req[r].pending)
                 /\ Cardinality(messages' \ messages) = 2
       /\ \A c \in DOMAIN conversations' :
             LET l == load_conversation(conversations', messages', c,
                                        conversations'[c].user_id).messages
             IN  /\ Len(l) = Len(persisted'[c])
                 /\ Rows(l) = Rows(persisted'[c])
                 /\ Cardinality(Rows(l)) = Len(l)
                 /\ \A i \in 1..Len(l), j \in 1..Len(l) :
                       i < j => l[i].created_at < l[j].created_at
      ]_vars

\* two concurrent turns on the stored conversation have both committed, and
\* their four messages are stored interleaved
C12_Witness ==
    /\ DOMAIN req = ConcSlots
    /\ Len(persisted[1]) = 6
    /\ Cardinality({m \in messages : m.conversation_id = 1}) = 6
    /\ load_conversation(conversations, messages, 1, "alice").messages # persisted[1]

(***************************************************************************)
(* Properties of the Task Store as the chat uses it                        *)
(***************************************************************************)
\* the tools that name a task by its id
ById == {"get_task", "update_task", "delete_task", "complete_task"}

\* the task dicts a tool result carries
ResultTasks(result) ==
    IF "tasks" \in DOMAIN result THEN Rows(result.tasks)
    ELSE IF "user_id" \in DOMAIN result THEN {result}
    ELSE {}

\* C13: every tool is invoked with user_id = the user of the request; what it
\* returns are tasks of that user only; a tool that names by id a task of
\* another user ends in an error (not found, unless storage failed first);
\* and a step changes, deletes or adds only rows owned by the user of the
\* request that makes it.
C13_TasksScopedByUser ==
    [][/\ \A r \in Slots :
             (req'[r].pc = "processed" /\ req[r].pc = "user_persisted"
              /\ req'[r].agent.invoked # <<>>) =>
                 LET call == req'[r].agent.invoked[1] IN
                 /\ call.args.user_id = req[r].user_id
                 /\ \A t \in ResultTasks(call.result) :
                       /\ t.user_id = req[r].user_id
                       /\ t.id \in DOMAIN tasks \cup DOMAIN tasks'
                 /\ (/\ call.tool \in ById
                     /\ "task_id" \in DOMAIN call.args
                     /\ ParseInt(call.args.task_id) \in DOMAIN tasks
                     /\ tasks[ParseInt(call.args.task_id)].user_id # req[r].user_id) =>
                        /\ IsError(call.result)
                        /\ call.result.code \in {404, 500}
                        /\ req'[r].agent.tool_calls = <<>>
                        /\ UNCHANGED tasks
       /\ \A i \in DOMAIN tasks \cup DOMAIN tasks' :
             (i \notin DOMAIN tasks \/ i \notin DOMAIN tasks' \/ tasks'[i] # tasks[i]) =>
                 \E r \in Slots :
                     /\ req[r].pc = "user_persisted"
                     /\ i \in DOMAIN tasks => tasks[i].user_id = req[r].user_id
                     /\ i \in DOMAIN tasks' => tasks'[i].user_id = req[r].user_id
      ]_vars

\* bob named task 1 of alice and got "Task not found"; the task is as it was
C13_Witness ==
    \E r \in Processed :
        /\ req[r].user_id = "bob"
        /\ req[r].agent.invoked # <<>>
        /\ req[r].agent.invoked[1].tool \in {"complete_task", "delete_task"}
        /\ req[r].agent.invoked[1].result = Err("Task not found", 404)
        /\ 1 \in DOMAIN tasks
        /\ tasks[1] = [user_id |-> "alice", title |-> "buy milk",
                       description |-> None, is_completed |-> FALSE]

(***************************************************************************)
(* Properties of the rule table                                            *)
(***************************************************************************)
\* the Delete trigger phrases of test_delete_intent_detection
DeleteTriggers == {"delete", "remove", "trash", "get rid of"}

\* the normalized message n is a trigger phrase, whitespace and a task reference
BeginsWithTrigger(n, triggers) ==
    \E t \in triggers :
        /\ Len(n) > Len(t) + 1
        /\ SubSeq(n, 1, Len(t)) = t
        /\ IsSpace(Char(n, Len(t) + 1))

\* C14: a message that begins with 'delete', 'remove', 'trash' or 'get rid of'
\* followed by a task reference is classified as Delete with confidence >= 0.7.
C14_DeleteTriggersGiveDelete ==
    (out.kind = "extract_intent" /\ BeginsWithTrigger(Lower(Strip(out.msg)), DeleteTriggers)) =>
        /\ out.intent = DELETE
        /\ out.confidence >= 7

\* C15: no normalized message matches patterns of two different intents.
C15_OneIntentPerPhrase ==
    out.kind = "extract_intent" =>
        Cardinality(PatternHits(Lower(Strip(out.msg)))) <= 1

\* messages that differ from m only in letter case or in surrounding whitespace
CaseAndSpaceVariants(m) ==
    {Upper(m), Lower(m), Upper(SubSeq(m, 1, 1)) \o SubSeq(m, 2, Len(m)),
     " " \o m, m \o " \n", "\t " \o Upper(m) \o "  ", Strip(m)}

\* C16: the result recorded for a message is the result of extract_intent on
\* every message that differs from it only in letter case or in leading or
\* trailing whitespace, intent and confidence both.
C16_CaseAndWhitespaceInsensitive ==
    out.kind = "extract_intent" =>
        \A v \in CaseAndSpaceVariants(out.msg) :
            extract_intent(IntentTable, v)
                = [intent |-> out.intent, confidence |-> out.confidence]

\* a message with capitals or surrounding whitespace was decided by a pattern
C16_Witness ==
    /\ out.kind = "extract_intent"
    /\ out.msg \in {"Add Buy Milk", "  add   buy milk  "}
    /\ out.intent = ADD
    /\ out.confidence = 10
    /\ Upper(out.msg) # out.msg

(***************************************************************************)
(* Properties of the orchestrator across turns                             *)
(***************************************************************************)
\* the committed turns: conversation c, position i of its user message
StoredTurns ==
    {<<c, i>> \in (DOMAIN persisted) \X (1..(2 * MaxTurns)) :
        /\ i + 1 <= Len(persisted[c])
        /\ persisted[c][i].sender = "user"}

\* the tool calls stored with the answer of a committed turn
StoredCalls(t) ==
    LET answer == persisted[t[1]][t[2] + 1] IN
    IF answer.tool_calls = Null THEN <<>> ELSE answer.tool_calls[1].tools

\* C17: what process_message decided for a request is the value fixed by the
\* message text and the caller alone (intent, tool, parameters), whatever the
\* conversation, the history passed in and the turns before; two committed
\* turns with the same message that ran a tool ran the same tool and, for the
\* same user, with the same parameters; the rule table is as declared.
C17_DecisionFunctionOfMessageAndUser ==
    /\ INTENT_PATTERNS = IntentTable
    /\ \A r \in Processed :
          LET ic == IntentOfChatMessage[req[r].message]
              a == req[r].agent
          IN  /\ a.intent = ic.intent
              /\ a.confidence = ic.confidence
              /\ Rejected(ic.intent, ic.confidence) <=> a.invoked = <<>>
              /\ a.invoked # <<>> =>
                    /\ Len(a.invoked) = 1
                    /\ a.invoked[1].tool = get_tool_name(ic.intent)
                    /\ a.invoked[1].args =
                          ParametersOfChatMessage[req[r].message, req[r].user_id]
    /\ \A s \in StoredTurns, t \in StoredTurns :
          (/\ persisted[s[1]][s[2]].content = persisted[t[1]][t[2]].content
           /\ StoredCalls(s) # <<>>
           /\ StoredCalls(t) # <<>>) =>
              /\ StoredCalls(s)[1].tool = StoredCalls(t)[1].tool
              /\ persisted[s[1]][s[2]].user_id = persisted[t[1]][t[2]].user_id =>
                    StoredCalls(s)[1].parameters = StoredCalls(t)[1].parameters

\* the same message ran a tool in two conversations, and a request with a
\* different message is being answered on top of one of them
C17_Witness ==
    /\ \E s \in StoredTurns, t \in StoredTurns :
          /\ s[1] # t[1]
          /\ persisted[s[1]][s[2]].content = persisted[t[1]][t[2]].content
          /\ StoredCalls(s) # <<>>
          /\ StoredCalls(t) # <<>>
          /\ StoredCalls(s)[1].parameters = StoredCalls(t)[1].parameters

\* a request is answered on top of a stored turn with a different message
C17_WitnessHistory ==
    \E r \in Processed :
        /\ Len(req[r].history) >= 2
        /\ req[r].history[1].content # req[r].message
        /\ req[r].agent.invoked # <<>>

(***************************************************************************)
(* Properties of _extract_parameters                                       *)
(***************************************************************************)
AddCommands == {"add", "create", "remember"}

\* m is the command t, whitespace and a remainder that is not all whitespace
IsCommandAndRemainder(m, t) ==
    /\ Len(m) > Len(t) + 1
    /\ SubSeq(m, 1, Len(t)) = t
    /\ IsSpace(Char(m, Len(t) + 1))
    /\ Strip(SubSeq(m, Len(t) + 1, Len(m))) # ""

\* C18: for an Add message that is 'add', 'create' or 'remember', whitespace
\* and a non-empty remainder, the parameters are exactly user_id = the caller
\* and title = that remainder, trimmed.
C18_AddTitleIsRemainder ==
    (out.kind = "extract_parameters" /\ out.intent = ADD) =>
        \A t \in AddCommands :
            IsCommandAndRemainder(out.msg, t) =>
                out.params = [user_id |-> out.user,
                              title |-> Strip(SubSeq(out.msg, Len(t) + 1, Len(out.msg)))]

\* d..e is the first run of decimal digits of m
IsFirstRunOfDigits(m, d, e) ==
    /\ d <= e
    /\ \A i \in 1..(d - 1) : ~IsDigit(Char(m, i))
    /\ \A i \in d..e : IsDigit(Char(m, i))
    /\ e = Len(m) \/ ~IsDigit(Char(m, e + 1))

\* C19: for Complete, Delete and Get, task_id is the first run of decimal
\* digits of the message, as a string, and is absent when the message has no
\* digit; for Complete, completed is FALSE exactly when the lower-cased
\* message contains 'uncomplete'; nothing else but user_id is extracted.
C19_TaskIdIsFirstDigitRun ==
    (out.kind = "extract_parameters" /\ out.intent \in {COMPLETE, DELETE, GET}) =>
        LET m == out.msg
            p == out.params
        IN  /\ p.user_id = out.user
            /\ DOMAIN p = {"user_id"}
                           \cup (IF out.intent = COMPLETE THEN {"completed"} ELSE {})
                           \cup (IF \E i \in 1..Len(m) : IsDigit(Char(m, i))
                                 THEN {"task_id"} ELSE {})
            /\ "task_id" \in DOMAIN p =>
                  \E d \in 1..Len(m), e \in 1..Len(m) :
                      /\ IsFirstRunOfDigits(m, d, e)
                      /\ p.task_id = SubSeq(m, d, e)
            /\ out.intent = COMPLETE =>
                  (p.completed = FALSE <=> Contains(Lower(m), "uncomplete"))

\* a message with two runs of digits, the first of two digits
C19_Witness ==
    /\ out.kind = "extract_parameters"
    /\ out.intent = COMPLETE
    /\ out.msg = "complete task 12 or 3"
    /\ out.params.task_id = "12"
    /\ out.params.completed = TRUE

\* 'uncomplete' turns completed off; a message without a digit has no task_id
C19_WitnessUncomplete ==
    /\ out.kind = "extract_parameters"
    /\ out.intent = COMPLETE
    /\ out.params.completed = FALSE
    /\ ncalls >= 2

(***************************************************************************)
(* Properties of the answers to refused requests                           *)
(***************************************************************************)
\* C20: a request that names a conversation of another user is answered with
\* access denied, status 403, which differs from the 404 of a conversation
\* that does not exist.
C20_ForeignConversationIs403 ==
    \A r \in Slots :
        (req[r].pc = "done" /\ req[r].cause = "conversation") =>
            IF req[r].foreign THEN req[r].status = 403 ELSE req[r].status = 404

(***************************************************************************)
(* Properties of the errors of the Task Store                              *)
(***************************************************************************)
\* C21: a Get, Update, Delete or Complete turn whose message yields no
\* task_id gets from the Task Store an error with code 400.
C21_MissingTaskIdIs400 ==
    \A r \in Processed :
        (/\ req[r].agent.invoked # <<>>
         /\ req[r].agent.invoked[1].tool \in ById
         /\ "task_id" \notin DOMAIN req[r].agent.invoked[1].args) =>
            /\ IsError(req[r].agent.invoked[1].result)
            /\ req[r].agent.invoked[1].result.code = 400

(***************************************************************************)
(* Properties of confirmation                                              *)
(***************************************************************************)
\* C22: no chat turn invokes the tool of an intent that should be confirmed
\* (Delete) without an exchange with the user before it: the conversation
\* holds an earlier answer of the assistant, to which the message replies.
C22_DeleteConfirmedFirst ==
    \A r \in Processed :
        (/\ should_confirm(req[r].agent.intent)
         /\ req[r].agent.invoked # <<>>) =>
            \E i \in 1..Len(req[r].history) : req[r].history[i].sender = "assistant"

(***************************************************************************)
(* Properties of the Add title                                             *)
(***************************************************************************)
\* the trimmed text of m after the first occurrence of kw in the lower-cased
\* m; "" when kw does not occur
SuffixAfter(m, kw) ==
    IF Contains(Lower(m), kw)
    THEN Strip(SubSeq(m, Find(Lower(m), kw) + Len(kw), Len(m)))
    ELSE ""

\* no Add extraction pattern matches the normalized message
NoAddPattern(m) == FirstAddPattern(Strip(Lower(m)), 1) = 0

\* C23: when no Add extraction pattern matches, the title is the trimmed text
\* after the first occurrence of the first of add, create, remember, task (in
\* that order) whose suffix is non-empty, and 'Untitled task' when there is no
\* such keyword; the title of an Add is never empty.
C23_AddFallbackFixedOrder ==
    (out.kind = "extract_parameters" /\ out.intent = ADD) =>
        /\ out.params.title # ""
        /\ NoAddPattern(out.msg) =>
              LET good == {k \in 1..4 :
                             SuffixAfter(out.msg, <<"add", "create", "remember", "task">>[k]) # ""}
              IN  out.params.title =
                    IF good = {} THEN "Untitled task"
                    ELSE SuffixAfter(out.msg, <<"add", "create", "remember", "task">>[Least(good)])

\* 'task' comes first in the message and 'add' first in the order: the title
\* is what follows 'add'
C23_Witness ==
    /\ out.kind = "extract_parameters"
    /\ out.intent = ADD
    /\ out.msg = "my task is to add milk"
    /\ out.params.title = "milk"

\* a keyword occurs with nothing after it and a later one gives the title
C23_WitnessEmptySuffix ==
    /\ out.kind = "extract_parameters"
    /\ out.intent = ADD
    /\ NoAddPattern(out.msg)
    /\ SuffixAfter(out.msg, "add") = ""
    /\ Contains(Lower(out.msg), "add")
    /\ out.params.title \notin {"", "Untitled task"}

(***************************************************************************)
(* Properties of the Update parameters                                     *)
(***************************************************************************)
\* the rest of the line of s from position i
LineFrom(s, i) == SubSeq(s, i, DotRunEnd(s, i) - 1)

\* the positions after the character at e where text follows whitespace:
\* reached from e over whitespace only, and holding a character of a line
TextStarts(s, e) ==
    {p \in (e + 2)..Len(s) :
        /\ \A t \in (e + 1)..(p - 1) : IsSpace(Char(s, t))
        /\ Char(s, p) # "\n"}

\* d..e is a run of digits of m followed by whitespace and further text
IsRunBeforeText(m, d, e) ==
    /\ d <= e
    /\ \A i \in d..e : IsDigit(Char(m, i))
    /\ d = 1 \/ ~IsDigit(Char(m, d - 1))
    /\ TextStarts(m, e) # {}

\* the text after the run that ends at e, without an optional 'to'
TitleAfterRun(m, e) ==
    LET rest == SubSeq(m, Max(TextStarts(m, e)), Len(m)) IN
    IF Len(rest) >= 2 /\ SubSeq(rest, 1, 2) = "to" /\ TextStarts(rest, 2) # {}
    THEN Strip(LineFrom(rest, Max(TextStarts(rest, 2))))
    ELSE Strip(LineFrom(rest, 1))

C24_WitnessNeither ==
    /\ out.kind = "extract_parameters"
    /\ out.intent = UPDATE
    /\ out.msg \in {"update task 1", "update task 12"}
    /\ DOMAIN out.params = {"user_id"}

(***************************************************************************)
(* Properties of listing                                                   *)
(***************************************************************************)
\* the ids a List of user u shows
Listed(u, include_completed) ==
    {i \in DOMAIN tasks :
        /\ tasks[i].user_id = u
        /\ include_completed \/ tasks[i].is_completed = FALSE}

\* C25: a List turn passes include_completed = FALSE exactly when the
\* lower-cased message contains 'completed'; its result holds, once each, all
\* tasks of the caller, or with include_completed = FALSE those of them that
\* are not completed.
C25_ListIncludeCompleted ==
    \A r \in Processed :
        (req[r].agent.intent = LIST /\ req[r].agent.invoked # <<>>) =>
            LET call == req[r].agent.invoked[1]
                shown == IF IsError(call.result) THEN <<>> ELSE call.result.tasks
            IN  /\ call.tool = "list_tasks"
                /\ call.args.include_completed = ~Contains(Lower(req[r].message), "completed")
                /\ ~IsError(call.result) =>
                      /\ Rows(shown) = {TaskDict(i, tasks[i]) :
                                           i \in Listed(req[r].user_id, call.args.include_completed)}
                      /\ Len(shown) = Cardinality(Rows(shown))

\* 'show completed tasks' of a user with a completed task and one that is not:
\* the one that is not completed is listed alone
C25_Witness ==
    \E r \in Processed :
        /\ req[r].message = "show completed tasks"
        /\ req[r].agent.invoked # <<>>
        /\ req[r].agent.invoked[1].args.include_completed = FALSE
        /\ ~IsError(req[r].agent.invoked[1].result)
        /\ Len(req[r].agent.invoked[1].result.tasks) = 1
        /\ \E i \in DOMAIN tasks : tasks[i].user_id = req[r].user_id /\ tasks[i].is_completed

\* C26: for an Add message 'add task <rest>' (likewise 'create task <rest>',
\* 'remember task <rest>') the title is <rest>, without the word 'task'.
C26_AddTaskTitleWithoutTask ==
    (out.kind = "extract_parameters" /\ out.intent = ADD) =>
        \A t \in AddCommands :
            IsCommandAndRemainder(out.msg, t \o " task") =>
                out.params.title = Strip(SubSeq(out.msg, Len(t) + 6, Len(out.msg)))

\* the normalized message n has text after a match of a pattern of the Add item
HasTextAfterAddTrigger(n) ==
    \E p \in 1..Len(IntentTable[1].patterns) :
        \E e \in MatchEnds(IntentTable[1].patterns[p], 1, n, 1) :
            Strip(SubSeq(n, e, Len(n))) # ""

\* C27: when a message is classified as Add by a pattern (confidence 1.0) and
\* has text after the trigger phrase, the title extracted for add_task is not
\* the placeholder 'Untitled task'.
C27_PatternAddHasRealTitle ==
    (/\ out.kind = "extract_parameters"
     /\ out.intent = ADD
     /\ extract_intent(IntentTable, out.msg) = [intent |-> ADD, confidence |-> 10]
     /\ HasTextAfterAddTrigger(Lower(Strip(out.msg)))) =>
        out.params.title # "Untitled task"

(***************************************************************************)
(* Properties of the response text                                         *)
(***************************************************************************)
\* the fields of the tool result that the template of an intent reads
\* (agent.py:313-337)
TemplateFields(intent) ==
    CASE intent = ADD      -> {"title"}
      [] intent = LIST     -> {"tasks"}
      [] intent = COMPLETE -> {"id"}
      [] intent = DELETE   -> {"id"}
      [] intent = UPDATE   -> {"title"}
      [] intent = GET      -> {"title", "description"}
      [] OTHER             -> {}

\* C28: after a successful tool call every field the response template of the
\* intent reads is a field of the result, and the response to a successful
\* delete_task names the task_id that was passed to the tool.
C28_ResponseFieldsProvided ==
    \A r \in Processed :
        (req[r].agent.invoked # <<>> /\ req[r].agent.tool_calls # <<>>) =>
            LET call == req[r].agent.invoked[1] IN
            /\ TemplateFields(req[r].agent.intent) \subseteq DOMAIN call.result
            /\ req[r].agent.intent = DELETE =>
                  req[r].agent.response = "[bin] Deleted task " \o call.args.task_id \o "."

(***************************************************************************)
(* Properties of the committed messages                                    *)
(***************************************************************************)
\* the committed messages of conversation c sent by `sender`
Sent(msgs, c, sender) == {m \in msgs : m.conversation_id = c /\ m.sender = sender}

\* every conversation holds as many user messages as assistant messages
Balanced(convs, msgs) ==
    /\ \A m \in msgs : m.conversation_id \in DOMAIN convs
    /\ \A c \in DOMAIN convs :
          Cardinality(Sent(msgs, c, "user")) = Cardinality(Sent(msgs, c, "assistant"))

\* C29: in every committed state each conversation holds as many user
\* messages as assistant messages; a step commits nothing or one user message
\* and one assistant message of one turn, and that assistant message carries
\* a tool-call record exactly when the tool-call list of the turn was
\* non-empty.
C29_TurnsCommitInPairs ==
    [][/\ Balanced(conversations, messages)
       /\ Balanced(conversations', messages')
       /\ messages' # messages =>
             \E r \in DOMAIN req :
                 /\ req[r].pc = "assistant_persisted"
                 /\ Len(req[r].pending) = 2
                 /\ messages' \ messages = Rows(req[r].pending)
                 /\ req[r].pending[1].sender = "user"
                 /\ req[r].pending[2].sender = "assistant"
                 /\ req[r].pending[1].tool_calls = Null
                 /\ req[r].pending[2].tool_calls =
                       IF req[r].agent.tool_calls # <<>>
                       THEN Json([tools |-> req[r].agent.tool_calls])
                       ELSE Null
      ]_vars

\* a turn failed after its user message was flushed, another committed a
\* tool-call record, while two requests were in progress
C29_Witness ==
    /\ DOMAIN req = ConcSlots
    /\ \E r \in ConcSlots :
          req[r].pc = "done" /\ req[r].status = 500 /\ req[r].at \in {"user_persisted", "processed"}
    /\ \E m \in messages : m.sender = "assistant" /\ m.tool_calls # Null
    /\ Cardinality(messages) >= 4

(***************************************************************************)
(* Properties of the ownership of conversations                            *)
(***************************************************************************)
\* every message belongs to a conversation and carries the user of its owner
OwnedByOwner(convs, msgs) ==
    \A m \in msgs :
        /\ m.conversation_id \in DOMAIN convs
        /\ m.user_id = convs[m.conversation_id].user_id

\* C30: every stored message carries the user identity of the owner of its
\* conversation, also the messages a request has flushed and not yet
\* committed to an existing conversation; no step changes the owner of a
\* conversation or deletes a conversation.
C30_MessagesCarryOwner ==
    [][/\ OwnedByOwner(conversations, messages)
       /\ OwnedByOwner(conversations', messages')
       /\ \A r \in DOMAIN req' :
             (req'[r].pending # <<>> /\ req'[r].conv \in DOMAIN conversations') =>
                 \A i \in 1..Len(req'[r].pending) :
                     req'[r].pending[i].user_id = conversations'[req'[r].conv].user_id
       /\ \A c \in DOMAIN conversations :
             /\ c \in DOMAIN conversations'
             /\ conversations'[c] = conversations[c]
      ]_vars

\* a user was refused a conversation of the other user, whose messages,
\* and those of a conversation of their own, are stored
C30_Witness ==
    /\ \E r \in Slots :
          /\ req[r].pc = "done"
          /\ req[r].foreign
          /\ req[r].status # 200
    /\ \E c \in DOMAIN conversations :
          \E m \in messages : m.conversation_id = c
    /\ Cardinality(DOMAIN conversations) >= 1

====
